---- MODULE Spec2Model ----
(***************************************************************************)
(* Backend Suriel RAG (src/#suriel_rag/backend/main.py): a FastAPI process *)
(* holding one process-wide Chroma index, with three routes: /upload,      *)
(* /chat and /count_index.                                                 *)
(*                                                                         *)
(* Texts are sequences of tokens.  The two content markers PREFIJO_CHAT    *)
(* and PREFIJO_DOCUMENTO are one token each; no occurrence of a marker can *)
(* straddle the pieces the code concatenates ("USUARIO: " holds no 'M',    *)
(* the marker holds no newline), so str.replace on characters and on       *)
(* tokens remove the same occurrences.                                     *)
(*                                                                         *)
(* The three handlers are "async def" coroutines without a single await:   *)
(* the event loop runs one handler from its first line to its response     *)
(* before it starts another.  Requests are concurrent in that several may  *)
(* be waiting (cola) and the loop may take them in any order.              *)
(***************************************************************************)
EXTENDS Integers, Sequences, FiniteSets, Bags, TLC

\* ------------------------------------------------------------- bounds
MaxSolicitudes == 2   \* requests that arrive in one run
MaxEnCola == 2        \* requests waiting for the event loop at once

\* ---------------------------------------------------- program constants
PREFIJO_CHAT == "MEMORIA_CHAT: "
PREFIJO_DOCUMENTO == "DOCUMENTO_RAG: "
FUENTE_MEMORIA == <<"Memoria del Chat">>
K_DOCUMENTOS == 9
K_MEMORIA == 6

\* ------------------------------------------------------------- helpers
Min(a, b) == IF a <= b THEN a ELSE b

\* str.replace(marca, ""): every occurrence of the marker is removed
Reemplazar(s, marca) == SelectSeq(s, LAMBDA t : t # marca)

\* the check written as '".pdf" in filename'
ContienePdf(nombre) == \E i \in 1..Len(nombre) : nombre[i] = ".pdf"

\* str.endswith(".pdf") on a file name
TerminaEnPdf(nombre) == Len(nombre) > 0 /\ nombre[Len(nombre)] = ".pdf"

\* f"USUARIO: {mensaje}\nSURIEL: {respuesta}"
TurnoCompleto(mensaje, respuesta) ==
  <<"USUARIO: ">> \o mensaje \o <<"\nSURIEL: ">> \o respuesta

\* Document(page_content=PREFIJO_CHAT + turno, metadata={source: sentinel})
DocumentoMemoria(mensaje, respuesta) ==
  [source |-> FUENTE_MEMORIA,
   texto  |-> <<PREFIJO_CHAT>> \o TurnoCompleto(mensaje, respuesta)]

\* ------------------------------------------------------------- inputs
\* An uploaded file: its name, whether PyPDFLoader can read it, and its
\* pages; a page is given by the fragments the text splitter cuts it into.
Archivos ==
  { [nombre |-> <<"informe", ".pdf">>, esPdf |-> TRUE,
     paginas |-> << << <<"x">>, <<"x">> >> >>],
    [nombre |-> <<"Memoria del Chat", ".pdf">>, esPdf |-> TRUE,
     paginas |-> << << <<"x">> >> >>],
    [nombre |-> <<"roto", ".pdf">>, esPdf |-> FALSE, paginas |-> <<>>],
    [nombre |-> <<"informe", ".pdf", ".bak">>, esPdf |-> TRUE,
     paginas |-> << << <<"x">> >> >>] }

Mensajes == { <<"hola">>, <<PREFIJO_CHAT, "hola">> }
Respuestas == { <<"si">> }

\* The requests a client can send: POST /upload with a file, POST /chat with
\* a message, GET /count_index.
Solicitudes ==
  { [tipo |-> "upload", archivo |-> a] : a \in Archivos }
  \cup { [tipo |-> "chat", mensaje |-> m] : m \in Mensajes }
  \cup { [tipo |-> "count"] }

Ninguna == [tipo |-> "ninguna"]

\* The persisted index the process opens at start: empty on a first run, or
\* what earlier runs left (the chunks of a manual and some chat turns, as
\* many as the two budgets or one more).
TrozoPrevio(i) ==
  [source |-> <<"manual", ".pdf">>,
   texto  |-> IF i = 1 THEN <<PREFIJO_DOCUMENTO, "x">> ELSE <<"x">>]
IndicePrevio(nd, nm) ==
  [i \in 1..nd |-> TrozoPrevio(i)]
  \o [i \in 1..nm |-> DocumentoMemoria(<<"hola">>, <<"si">>)]
IndicesIniciales ==
  { <<>>,
    IndicePrevio(K_DOCUMENTOS, K_MEMORIA),
    IndicePrevio(K_DOCUMENTOS + 1, K_MEMORIA + 1) }

SinRespuesta == [status |-> 0, num |-> 0, respuesta |-> <<>>]

SinLlamadas ==
  [busqueda_documentos |-> 0, busqueda_memoria |-> 0,
   generacion |-> 0, agregado_memoria |-> 0]

VARIABLES
  index,               \* vectorstore: the records, in insertion order
  uploads,             \* names of the files in DIRECTORIO_SUBIDAS
  cola,                \* bag of the requests that wait for the event loop
  req,                 \* the request whose handler the loop runs / ran last
  pc,                  \* position of that handler
  excepcion,           \* the call that raised in the handler, "" if none
  documentos,          \* subir_pdf: pages loaded and prefixed
  trozos,              \* subir_pdf: chunks produced by the splitter
  documentos_rag,      \* chat: positions returned by the document search
  documentos_memoria,  \* chat: positions returned by the memory search
                       \* (both are read for the last time when the prompt
                       \* is built, and kept until the model is called)
  respuesta_generada,  \* chat: text returned by the model
  prompt,              \* chat: prompt_estricto, the text sent to the model
  llamadas,            \* chat: calls issued so far to the two searches,
                       \* the model and the memory add
  resp,                \* the HTTP response of the handler
  conteo0,             \* index count when the handler started
  llegadas,            \* number of requests that arrived
  agregados,           \* records added by add_documents calls that returned
  inicial,             \* index count when the process started
  solapadas,           \* some request arrived while another was in flight
  intercambios         \* chat exchanges answered with success

vars == <<index, uploads, cola, req, pc, excepcion, documentos, trozos,
          documentos_rag, documentos_memoria, respuesta_generada, prompt,
          llamadas, resp, conteo0, llegadas, agregados, inicial, solapadas,
          intercambios>>

locales == <<documentos, trozos, documentos_rag, documentos_memoria,
             respuesta_generada, prompt>>
fantasmas == <<conteo0, llegadas, agregados, inicial, solapadas,
               intercambios>>

Init ==
  /\ index \in IndicesIniciales
  /\ uploads = {}
  /\ cola = EmptyBag
  /\ req = Ninguna
  /\ pc = "idle"
  /\ excepcion = ""
  /\ documentos = <<>>
  /\ trozos = <<>>
  /\ documentos_rag = {}
  /\ documentos_memoria = {}
  /\ respuesta_generada = <<>>
  /\ prompt = <<>>
  /\ llamadas = SinLlamadas
  /\ resp = SinRespuesta
  /\ conteo0 = Len(index)
  /\ llegadas = 0
  /\ agregados = 0
  /\ inicial = Len(index)
  /\ solapadas = FALSE
  /\ intercambios = {}

\* ------------------------------------------------------ vector index
\* vectorstore._collection.count()
ObtenerConteo(idx) == Len(idx)

\* add_documents with identifiers derived from the content: a record that is
\* already stored is not stored again
AgregarSinDuplicados(idx, docs) ==
  idx \o SelectSeq(docs, LAMBDA d : \A i \in 1..Len(idx) : idx[i] # d)

\* add_documents with identifiers numbered within the batch: the upsert
\* overwrites the records of the batches before
AgregarConIdsDelLote(idx, docs) ==
  [i \in 1..(IF Len(idx) > Len(docs) THEN Len(idx) ELSE Len(docs)) |->
     IF i <= Len(docs) THEN docs[i] ELSE idx[i]]

\* vectorstore.add_documents(docs): every record gets a fresh identifier
AgregarDocumentos(idx, docs) == idx \o docs

\* the document search without its filter
FiltroAusente(rec) == TRUE

\* the two metadata filters of /chat
FiltroDocumentos(rec) == rec.source # FUENTE_MEMORIA
FiltroMemoria(rec) == rec.source = FUENTE_MEMORIA

\* the positions a filtered search ranks: the filter is applied first
CandidatosDocumentos(idx) == { i \in 1..Len(idx) : FiltroDocumentos(idx[i]) }
CandidatosMemoria(idx) == { i \in 1..Len(idx) : FiltroMemoria(idx[i]) }

\* similarity_search(q, k, filter): the k nearest of the candidates, all of
\* them when they are fewer; which are nearest is the embedder's choice
BuscarPorSimilitud(candidatos, k) ==
  { S \in SUBSET candidatos :
      Cardinality(S) = Min(k, Cardinality(candidatos)) }

\* ------------------------------------------------- event loop, arrivals
LoopLibre == pc \in {"idle", "fin"}

Entrada(tipo) ==
  CASE tipo = "upload" -> "validar"
    [] tipo = "chat"   -> "buscar_documentos"
    [] OTHER           -> "contar"

Llegar ==
  /\ llegadas < MaxSolicitudes
  /\ UNCHANGED llamadas
  /\ BagCardinality(cola) < MaxEnCola
  /\ \E s \in Solicitudes : cola' = cola (+) SetToBag({s})
  /\ llegadas' = llegadas + 1
  /\ solapadas' = (solapadas \/ ~(LoopLibre /\ cola = EmptyBag))
  /\ UNCHANGED <<index, uploads, req, pc, excepcion, locales, resp,
                 conteo0, agregados, inicial, intercambios>>

Despachar ==
  /\ LoopLibre
  /\ \E s \in BagToSet(cola) :
       /\ req' = s
       /\ cola' = cola (-) SetToBag({s})
       /\ pc' = Entrada(s.tipo)
  /\ excepcion' = ""
  /\ documentos' = <<>>
  /\ trozos' = <<>>
  /\ documentos_rag' = {}
  /\ documentos_memoria' = {}
  /\ respuesta_generada' = <<>>
  /\ prompt' = <<>>
  /\ llamadas' = SinLlamadas
  /\ resp' = SinRespuesta
  /\ conteo0' = ObtenerConteo(index)
  /\ UNCHANGED <<index, uploads, llegadas, agregados, inicial, solapadas,
                 intercambios>>

\* ------------------------------------------------------- POST /upload
\* cargador.load() and the loop that tags and prefixes every page
CargarYPrefijar(archivo) ==
  [i \in 1..Len(archivo.paginas) |->
     LET pagina == archivo.paginas[i]
     IN  [source |-> archivo.nombre,
          fragmentos |-> IF pagina = <<>>
                         THEN << <<PREFIJO_DOCUMENTO>> >>
                         ELSE [pagina EXCEPT ![1] = <<PREFIJO_DOCUMENTO>> \o @]]]

\* divisor_texto.split_documents(documentos): the chunks of every page, in
\* order, each carrying the metadata of its page
RECURSIVE SplitDocuments(_)
SplitDocuments(docs) ==
  IF docs = <<>> THEN <<>>
  ELSE [j \in 1..Len(Head(docs).fragmentos) |->
          [source |-> Head(docs).source, texto |-> Head(docs).fragmentos[j]]]
       \o SplitDocuments(Tail(docs))

\* the removal placed after the indexing call instead of in a finally block
TrasLimpiarSoloExito(archivos, nombre, exc) ==
  IF exc = "" THEN archivos \ {nombre} ELSE archivos

\* the finally block: the uploaded file is removed if it exists
TrasLimpiar(archivos, nombre, exc) == archivos \ {nombre}

\* subir_pdf catching RuntimeError only: what open or copyfileobj raise
\* leaves the handler without a response of its own
RespuestaSubidaSoloRuntime(exc, num_trozos) ==
  IF exc = ""
  THEN [status |-> 200, num |-> num_trozos, respuesta |-> <<>>]
  ELSE IF exc \in {"open", "copyfileobj"}
       THEN [status |-> 0, num |-> 0, respuesta |-> <<>>]
       ELSE [status |-> 500, num |-> 0, respuesta |-> <<>>]

\* what subir_pdf answers once the try block is left
RespuestaSubida(exc, num_trozos) ==
  IF exc = ""
  THEN [status |-> 200, num |-> num_trozos, respuesta |-> <<>>]
  ELSE [status |-> 500, num |-> 0, respuesta |-> <<>>]

Validar ==
  /\ pc = "validar"
  /\ UNCHANGED llamadas
  /\ IF TerminaEnPdf(req.archivo.nombre)
     THEN /\ pc' = "guardar"
          /\ resp' = resp
     ELSE /\ pc' = "fin"
          /\ resp' = [status |-> 400, num |-> 0, respuesta |-> <<>>]
  /\ UNCHANGED <<index, uploads, cola, req, excepcion, locales, fantasmas>>

\* open(ruta, "wb") creates the file; copyfileobj fills it
Guardar ==
  /\ pc = "guardar"
  /\ UNCHANGED llamadas
  /\ \E r \in {"", "open", "copyfileobj"} :
       /\ excepcion' = r
       /\ uploads' = IF r = "open" THEN uploads
                     ELSE uploads \cup {req.archivo.nombre}
       /\ pc' = IF r = "" THEN "cargar" ELSE "limpiar"
  /\ UNCHANGED <<index, cola, req, locales, resp, fantasmas>>

Cargar ==
  /\ pc = "cargar"
  /\ UNCHANGED llamadas
  /\ IF req.archivo.esPdf
     THEN /\ documentos' = CargarYPrefijar(req.archivo)
          /\ excepcion' = ""
          /\ pc' = "dividir"
     ELSE /\ documentos' = documentos
          /\ excepcion' = "load"
          /\ pc' = "limpiar"
  /\ UNCHANGED <<index, uploads, cola, req, trozos, documentos_rag,
                 documentos_memoria, respuesta_generada, prompt, resp,
                 fantasmas>>

Dividir ==
  /\ pc = "dividir"
  /\ UNCHANGED llamadas
  /\ \E falla \in BOOLEAN :
       IF falla
       THEN /\ excepcion' = "split_documents"
            /\ trozos' = trozos
            /\ pc' = "limpiar"
       ELSE /\ excepcion' = ""
            /\ trozos' = SplitDocuments(documentos)
            /\ pc' = "agregar"
  /\ UNCHANGED <<index, uploads, cola, req, documentos, documentos_rag,
                 documentos_memoria, respuesta_generada, prompt, resp,
                 fantasmas>>

Agregar ==
  /\ pc = "agregar"
  /\ UNCHANGED llamadas
  /\ \E falla \in BOOLEAN :
       IF falla
       THEN /\ excepcion' = "add_documents"
            /\ index' = index
            /\ agregados' = agregados
            /\ pc' = "limpiar"
       ELSE /\ excepcion' = ""
            /\ index' = AgregarDocumentos(index, trozos)
            /\ agregados' = agregados + Len(trozos)
            /\ pc' = "persistir"
  /\ UNCHANGED <<uploads, cola, req, locales, resp, conteo0, llegadas,
                 inicial, solapadas, intercambios>>

Persistir ==
  /\ pc = "persistir"
  /\ UNCHANGED llamadas
  /\ \E falla \in BOOLEAN :
       /\ excepcion' = IF falla THEN "persist" ELSE ""
       /\ pc' = IF falla THEN "limpiar" ELSE "depurar"
  /\ UNCHANGED <<index, uploads, cola, req, locales, resp, fantasmas>>

\* the DEBUG print reads the count of the index
Depurar ==
  /\ pc = "depurar"
  /\ UNCHANGED llamadas
  /\ \E falla \in BOOLEAN :
       excepcion' = IF falla THEN "count" ELSE ""
  /\ pc' = "limpiar"
  /\ UNCHANGED <<index, uploads, cola, req, locales, resp, fantasmas>>

Limpiar ==
  /\ pc = "limpiar"
  /\ UNCHANGED llamadas
  /\ uploads' = TrasLimpiar(uploads, req.archivo.nombre, excepcion)
  /\ resp' = RespuestaSubida(excepcion, Len(trozos))
  /\ pc' = "fin"
  /\ UNCHANGED <<index, cola, req, excepcion, locales, fantasmas>>

SubirPdf ==
  \/ Validar \/ Guardar \/ Cargar \/ Dividir
  \/ Agregar \/ Persistir \/ Depurar \/ Limpiar

\* --------------------------------------------------------- POST /chat
\* Búsqueda 1: k=9, filter source $ne 'Memoria del Chat'
BuscarDocumentosRag(idx) ==
  BuscarPorSimilitud(CandidatosDocumentos(idx), K_DOCUMENTOS)

\* the memory search with the filter applied after the k nearest of the
\* whole index were taken
BuscarMemoriaPostFiltro(idx) ==
  { { i \in S : FiltroMemoria(idx[i]) } :
      S \in BuscarPorSimilitud(1..Len(idx), K_MEMORIA) }

\* Búsqueda 2: k=6, filter source = 'Memoria del Chat'
BuscarDocumentosMemoria(idx) ==
  BuscarPorSimilitud(CandidatosMemoria(idx), K_MEMORIA)

\* doc.page_content.replace(PREFIJO_DOCUMENTO, "") of a retrieved record
ContextoDocumento(rec) == Reemplazar(rec.texto, PREFIJO_DOCUMENTO)

\* doc.page_content.replace(PREFIJO_CHAT, "") of a retrieved record
ContextoChat(rec) == Reemplazar(rec.texto, PREFIJO_CHAT)

\* the retrieved records of a search as a list; the order inside one list is
\* the ranking of the embedder, taken here as the order of insertion
RECURSIVE EnOrden(_)
EnOrden(S) ==
  IF S = {} THEN <<>>
  ELSE LET i == CHOOSE x \in S : \A y \in S : x <= y
       IN  <<i>> \o EnOrden(S \ {i})

\* contexto_documentos and contexto_chat: the texts without their marker
ContextoDocumentos(idx, S) ==
  LET orden == EnOrden(S)
  IN  [j \in 1..Len(orden) |-> ContextoDocumento(idx[orden[j]])]
ContextosChat(idx, S) ==
  LET orden == EnOrden(S)
  IN  [j \in 1..Len(orden) |-> ContextoChat(idx[orden[j]])]

\* "\n".join(textos)
RECURSIVE Unir(_)
Unir(textos) ==
  IF textos = <<>> THEN <<>>
  ELSE IF Len(textos) = 1 THEN textos[1]
  ELSE textos[1] \o <<"\n">> \o Unir(Tail(textos))

\* the fixed pieces of prompt_estricto, one token each
INSTRUCCION == "Eres Suriel, ... Contexto relevante de la base de datos y memoria de chat:\n"
ENCABEZADO_DOCUMENTOS == "\n\n--- CONTEXTO DE DOCUMENTOS ---\n"
ENCABEZADO_HISTORIAL == "\n\n--- HISTORIAL DE CONVERSACION (MEMORIA) ---\n"
PREGUNTA == "\n\nPregunta del usuario: "
RESPUESTA == "\nRespuesta:\n"

\* contexto_combinado with the history block written without its condition
ContextoCombinadoSinCondicion(contexto_documentos, contexto_chat) ==
  <<ENCABEZADO_DOCUMENTOS>> \o Unir(contexto_documentos)
  \o <<ENCABEZADO_HISTORIAL>> \o Unir(contexto_chat)

\* contexto_combinado = contexto_rag_documentos + historial_largo_plazo
ContextoCombinado(contexto_documentos, contexto_chat) ==
  <<ENCABEZADO_DOCUMENTOS>> \o Unir(contexto_documentos)
  \o (IF contexto_chat # <<>>
      THEN <<ENCABEZADO_HISTORIAL>> \o Unir(contexto_chat)
      ELSE <<>>)

\* prompt_estricto
PromptEstricto(contexto_documentos, contexto_chat, mensaje) ==
  <<INSTRUCCION>> \o ContextoCombinado(contexto_documentos, contexto_chat)
  \o <<PREGUNTA>> \o mensaje \o <<RESPUESTA>>

\* the turn stored as two records, the message and the response
RegistrosDePartes(mensaje, respuesta) ==
  << [source |-> FUENTE_MEMORIA,
      texto |-> <<PREFIJO_CHAT, "USUARIO: ">> \o mensaje],
     [source |-> FUENTE_MEMORIA,
      texto |-> <<PREFIJO_CHAT, "\nSURIEL: ">> \o respuesta] >>

\* Paso 4: the one record add_documents receives
RegistrosDeMemoria(mensaje, respuesta) ==
  << DocumentoMemoria(mensaje, respuesta) >>

\* chat with the memory write in a try block of its own
RespuestaChatTolerante(exc, respuesta) ==
  IF exc \in {"", "add_documents", "persist"}
  THEN [status |-> 200, num |-> 0, respuesta |-> respuesta]
  ELSE [status |-> 500, num |-> 0, respuesta |-> <<>>]

\* what chat answers: the return of the try block, or the except clause
RespuestaChat(exc, respuesta) ==
  IF exc = ""
  THEN [status |-> 200, num |-> 0, respuesta |-> respuesta]
  ELSE [status |-> 500, num |-> 0, respuesta |-> <<>>]

\* a failed call issued again instead of ending the request
SiguienteConReintento(paso) == paso

\* a failure of the model swallowed: chat goes on to store the turn
SiguienteTrasGeneracionFallida(paso) ==
  IF paso = "generar" THEN "guardar_memoria" ELSE "fin"

\* where chat goes when a call of the try block raises: the except clause,
\* which ends the request
SiguienteTrasFallo(paso) == "fin"

BuscarDocumentos ==
  /\ pc = "buscar_documentos"
  /\ llamadas' = [llamadas EXCEPT !.busqueda_documentos = @ + 1]
  /\ \/ /\ excepcion' = "similarity_search"
        /\ documentos_rag' = documentos_rag
        /\ resp' = RespuestaChat("similarity_search", <<>>)
        /\ pc' = SiguienteTrasFallo("buscar_documentos")
     \/ /\ excepcion' = ""
        /\ documentos_rag' \in BuscarDocumentosRag(index)
        /\ resp' = resp
        /\ pc' = "buscar_memoria"
  /\ UNCHANGED <<index, uploads, cola, req, documentos, trozos,
                 documentos_memoria, respuesta_generada, prompt, fantasmas>>

\* the second search, then the two context lists and the prompt, which are
\* computed from the results without any call that can fail
BuscarMemoria ==
  /\ pc = "buscar_memoria"
  /\ llamadas' = [llamadas EXCEPT !.busqueda_memoria = @ + 1]
  /\ \/ /\ excepcion' = "similarity_search"
        /\ documentos_memoria' = documentos_memoria
        /\ documentos_rag' = {}
        /\ prompt' = <<>>
        /\ resp' = RespuestaChat("similarity_search", <<>>)
        /\ pc' = SiguienteTrasFallo("buscar_memoria")
     \/ /\ excepcion' = ""
        /\ documentos_memoria' \in BuscarDocumentosMemoria(index)
        /\ documentos_rag' = documentos_rag
        /\ prompt' = PromptEstricto(
                        ContextoDocumentos(index, documentos_rag),
                        ContextosChat(index, documentos_memoria'),
                        req.mensaje)
        /\ resp' = resp
        /\ pc' = "generar"
  /\ UNCHANGED <<index, uploads, cola, req, documentos, trozos,
                 respuesta_generada, fantasmas>>

\* cliente_llm.chat.completions.create(...) is called on the prompt
Generar ==
  /\ pc = "generar"
  /\ llamadas' = [llamadas EXCEPT !.generacion = @ + 1]
  /\ \/ /\ excepcion' = "create"
        /\ respuesta_generada' = respuesta_generada
        /\ documentos_rag' = {}
        /\ documentos_memoria' = {}
        /\ prompt' = <<>>
        /\ resp' = RespuestaChat("create", <<>>)
        /\ pc' = SiguienteTrasFallo("generar")
     \/ /\ excepcion' = ""
        /\ respuesta_generada' \in Respuestas
        /\ documentos_rag' = {}
        /\ documentos_memoria' = {}
        /\ prompt' = prompt
        /\ resp' = resp
        /\ pc' = "guardar_memoria"
  /\ UNCHANGED <<index, uploads, cola, req, documentos, trozos, fantasmas>>

GuardarMemoria ==
  /\ pc = "guardar_memoria"
  /\ llamadas' = [llamadas EXCEPT !.agregado_memoria = @ + 1]
  /\ \E falla \in BOOLEAN :
       IF falla
       THEN /\ excepcion' = "add_documents"
            /\ index' = index
            /\ agregados' = agregados
            /\ resp' = RespuestaChat("add_documents", respuesta_generada)
            /\ documentos_rag' = {}
            /\ documentos_memoria' = {}
            /\ prompt' = <<>>
            /\ pc' = SiguienteTrasFallo("guardar_memoria")
       ELSE /\ excepcion' = ""
            /\ index' = AgregarDocumentos(index,
                          RegistrosDeMemoria(req.mensaje, respuesta_generada))
            /\ agregados' =
                 agregados + Len(RegistrosDeMemoria(req.mensaje,
                                                    respuesta_generada))
            /\ resp' = resp
            /\ UNCHANGED <<documentos_rag, documentos_memoria, prompt>>
            /\ pc' = "persistir_memoria"
  /\ UNCHANGED <<uploads, cola, req, documentos, trozos, respuesta_generada,
                 conteo0, llegadas, inicial, solapadas, intercambios>>

PersistirMemoria ==
  /\ pc = "persistir_memoria"
  /\ UNCHANGED llamadas
  /\ \E falla \in BOOLEAN :
       /\ excepcion' = IF falla THEN "persist" ELSE ""
       /\ resp' = RespuestaChat(excepcion', respuesta_generada)
       /\ intercambios' =
            IF resp'.status = 200
            THEN intercambios \cup
                   {[mensaje |-> req.mensaje, respuesta |-> respuesta_generada]}
            ELSE intercambios
  /\ documentos_rag' = {}
  /\ documentos_memoria' = {}
  /\ prompt' = <<>>
  /\ pc' = "fin"
  /\ UNCHANGED <<index, uploads, cola, req, documentos, trozos,
                 respuesta_generada, conteo0, llegadas, agregados, inicial,
                 solapadas>>

Chat ==
  \/ BuscarDocumentos \/ BuscarMemoria \/ Generar
  \/ GuardarMemoria \/ PersistirMemoria

\* --------------------------------------------------- GET /count_index
ContarDocumentosIndexados ==
  /\ pc = "contar"
  /\ UNCHANGED llamadas
  /\ \E falla \in BOOLEAN :
       /\ excepcion' = IF falla THEN "count" ELSE ""
       /\ resp' = IF falla
                  THEN [status |-> 500, num |-> 0, respuesta |-> <<>>]
                  ELSE [status |-> 200, num |-> ObtenerConteo(index),
                        respuesta |-> <<>>]
  /\ pc' = "fin"
  /\ UNCHANGED <<index, uploads, cola, req, locales, fantasmas>>

Next == Llegar \/ Despachar \/ SubirPdf \/ Chat \/ ContarDocumentosIndexados

Spec == Init /\ [][Next]_vars

\* ============================================================ properties
\* sub occurs in s as a contiguous run
Contiene(s, sub) ==
  \E i \in 0..(Len(s) - Len(sub)) :
     \A j \in 1..Len(sub) : s[i + j] = sub[j]

EnMemoria(idx) == { i \in 1..Len(idx) : idx[i].source = FUENTE_MEMORIA }
FueraDeMemoria(idx) == { i \in 1..Len(idx) : idx[i].source # FUENTE_MEMORIA }
SubidaTerminada == pc = "fin" /\ req.tipo = "upload"
ChatTerminado == pc = "fin" /\ req.tipo = "chat"
TrasLasBusquedas == pc = "generar" /\ req.tipo = "chat"

\* C1: no record of the index matches both the memory filter and the
\* document filter, and the records returned by the document search and by
\* the memory search of one chat request have no identifier in common.
C1_CanalesDisjuntos ==
  /\ \A i \in 1..Len(index) :
       ~(FiltroMemoria(index[i]) /\ FiltroDocumentos(index[i]))
  /\ documentos_rag \cap documentos_memoria = {}

C1_Testigo ==
  /\ TrasLasBusquedas
  /\ documentos_rag # {}
  /\ documentos_memoria # {}
  /\ agregados > 0

\* C2: an upload answered with success whose document split into n chunks
\* left the index count n above what it was when the request started, and
\* reported n; a second upload of the same document adds its n chunks again.
C2_SubidaAgregaN ==
  (SubidaTerminada /\ resp.status = 200) =>
     /\ ObtenerConteo(index) = conteo0 + Len(trozos)
     /\ resp.num = Len(trozos)
     /\ SubSeq(index, conteo0 + 1, Len(index)) = trozos

C2_Testigo ==
  /\ SubidaTerminada
  /\ resp.status = 200
  /\ Len(trozos) = 2
  /\ Cardinality({ i \in 1..Len(index) :
                     index[i].source = req.archivo.nombre }) = 2 * Len(trozos)

\* C3: for every chat exchange (Q, A) answered with success the index holds
\* a memory record whose text without the marker contains Q and contains A;
\* a later chat request has that record among the candidates of its memory
\* search, and gets it when the memory channel holds at most 6 records.
C3_TurnoRecuperable ==
  \A e \in intercambios :
    /\ \E i \in EnMemoria(index) :
         /\ Contiene(ContextoChat(index[i]), e.mensaje)
         /\ Contiene(ContextoChat(index[i]), e.respuesta)
    /\ TrasLasBusquedas =>
         \E i \in CandidatosMemoria(index) :
           /\ index[i] = DocumentoMemoria(e.mensaje, e.respuesta)
           /\ Cardinality(EnMemoria(index)) <= 6 => i \in documentos_memoria

\* The part of C3 the code keeps: the record of every answered exchange is
\* stored as written and is a candidate of every later memory search.
C3_RegistroEntreCandidatos ==
  \A e \in intercambios :
    \E i \in CandidatosMemoria(index) :
      /\ index[i] = DocumentoMemoria(e.mensaje, e.respuesta)
      /\ (TrasLasBusquedas /\ Cardinality(EnMemoria(index)) <= 6)
           => i \in documentos_memoria

\* C4 as stated: when add_documents or persist of the memory record raises
\* after the model answered, the caller still receives the generated text.
C4_RespuestaEntregada ==
  (ChatTerminado /\ excepcion \in {"add_documents", "persist"}) =>
     /\ resp.status = 200
     /\ resp.respuesta = respuesta_generada

\* C4 amended: when add_documents or persist of the memory record raises
\* after the model answered, the request ends with HTTP 500 and the
\* generated text is not delivered.
C4_FalloDeMemoriaEs500 ==
  (ChatTerminado /\ excepcion \in {"add_documents", "persist"}) =>
     /\ resp.status = 500
     /\ resp.respuesta = <<>>
     /\ respuesta_generada \in Respuestas

C4_Testigo ==
  /\ ChatTerminado
  /\ excepcion = "persist"
  /\ respuesta_generada # <<>>
  /\ ObtenerConteo(index) = conteo0 + 1

\* C5: an upload that ended in a server error left no chunk of its document
\* in the index: the count is what it was when the request started.
C5_SubidaFallidaSinTrozos ==
  (SubidaTerminada /\ resp.status = 500) =>
     ObtenerConteo(index) = conteo0

\* C6: once every request that arrived has finished, whatever the order in
\* which the waiting requests were served, the index count is the initial
\* count plus the records each add_documents call of each request added.
C6_NingunAgregadoPerdido ==
  (LoopLibre /\ cola = EmptyBag) =>
     ObtenerConteo(index) = inicial + agregados

C6_Testigo ==
  /\ LoopLibre
  /\ cola = EmptyBag
  /\ solapadas
  /\ \E i \in EnMemoria(index) : i > inicial
  /\ \E i \in FueraDeMemoria(index) : i > inicial

\* C7: a chat exchange answered with success added exactly one record, the
\* last of the index: source 'Memoria del Chat', text the marker, the user
\* message and the generated response, whatever their lengths.
C7_UnRegistroPorTurno ==
  (ChatTerminado /\ resp.status = 200) =>
     /\ ObtenerConteo(index) = conteo0 + 1
     /\ index[Len(index)] =
          [source |-> <<"Memoria del Chat">>,
           texto  |-> <<"MEMORIA_CHAT: ", "USUARIO: ">> \o req.mensaje
                       \o <<"\nSURIEL: ">> \o resp.respuesta]

C7_Testigo ==
  /\ ChatTerminado
  /\ resp.status = 200
  /\ Len(req.mensaje) > 1
  /\ conteo0 > 0

\* C8: when an upload request has ended, by success or by a failure of the
\* write, the extraction, the chunking, the add or the persist, the file it
\* wrote in the uploads directory does not exist.
C8_TemporalEliminado ==
  SubidaTerminada => req.archivo.nombre \notin uploads

C8_Testigo ==
  /\ SubidaTerminada
  /\ excepcion = "persist"
  /\ resp.status = 500

\* C9: an upload whose file name does not end in ".pdf" goes from the check
\* to its response, which is HTTP 400: no file is created in the uploads
\* directory and the index count stays what it was.
C9_NoPdfRechazado ==
  (req.tipo = "upload"
   /\ req.archivo.nombre[Len(req.archivo.nombre)] # ".pdf") =>
     /\ pc \in {"validar", "fin"}
     /\ req.archivo.nombre \notin uploads
     /\ ObtenerConteo(index) = conteo0
     /\ pc = "fin" => resp.status = 400

C9_Testigo ==
  /\ SubidaTerminada
  /\ req.archivo.nombre[Len(req.archivo.nombre)] # ".pdf"
  /\ resp.status = 400
  /\ conteo0 > 0

\* C10: after the two searches of a chat request the document context holds
\* min(9, non-memory records of the index) records, none of them memory,
\* and the memory context holds min(6, memory records) records, all memory.
C10_PresupuestosIndependientes ==
  TrasLasBusquedas =>
     /\ Cardinality(documentos_rag) =
          Min(9, Cardinality(FueraDeMemoria(index)))
     /\ documentos_rag \subseteq FueraDeMemoria(index)
     /\ Cardinality(documentos_memoria) =
          Min(6, Cardinality(EnMemoria(index)))
     /\ documentos_memoria \subseteq EnMemoria(index)

C10_Testigo ==
  /\ TrasLasBusquedas
  /\ Cardinality(FueraDeMemoria(index)) > 10
  /\ Cardinality(EnMemoria(index)) > 6
  /\ agregados > 0

\* C11: every request that has ended was answered with success or with an
\* HTTP error (400 for a rejected upload, 500 otherwise); a handler that has
\* started always has a next step, whatever failed; and when the loop is
\* free and a request waits, that request can be started.
C11_SinEscape ==
  /\ pc = "fin" =>
       \/ resp.status \in {200, 500}
       \/ resp.status = 400 /\ req.tipo = "upload"
  /\ pc \notin {"idle", "fin"} =>
       ENABLED (SubirPdf \/ Chat \/ ContarDocumentosIndexados)
  /\ (pc \in {"idle", "fin"} /\ cola # EmptyBag) => ENABLED Despachar

C11_Testigo ==
  /\ pc = "fin"
  /\ req.tipo = "upload"
  /\ excepcion = "copyfileobj"
  /\ resp.status = 500
  /\ cola # EmptyBag

\* C12: the prompt built for the model is, in this order, the instruction, the
\* documents header with the document contexts (the header also when there
\* are none), the history header with the memory contexts exactly when the
\* memory context list is not empty, and the question with the message.
C12_PromptEnOrden ==
  TrasLasBusquedas =>
    LET n == Len(prompt)
        m == Len(req.mensaje)
        medio == SubSeq(prompt, 3, n - m - 2)
        h == { i \in 1..Len(medio) : medio[i] = ENCABEZADO_HISTORIAL }
        cd == Unir(ContextoDocumentos(index, documentos_rag))
        cc == Unir(ContextosChat(index, documentos_memoria))
    IN  /\ n >= m + 4
        /\ prompt[1] = INSTRUCCION
        /\ prompt[2] = ENCABEZADO_DOCUMENTOS
        /\ SubSeq(prompt, n - m - 1, n)
             = <<PREGUNTA>> \o req.mensaje \o <<RESPUESTA>>
        /\ \A i \in 1..Len(medio) : medio[i] # ENCABEZADO_DOCUMENTOS
        /\ (h # {}) <=> (documentos_memoria # {})
        /\ IF h = {} THEN medio = cd
           ELSE \E i \in h :
                  /\ h = {i}
                  /\ SubSeq(medio, 1, i - 1) = cd
                  /\ SubSeq(medio, i + 1, Len(medio)) = cc

C12_Testigo ==
  /\ TrasLasBusquedas
  /\ documentos_rag = {}
  /\ documentos_memoria # {}
  /\ prompt # <<>>

C12_TestigoSinHistorial ==
  /\ TrasLasBusquedas
  /\ documentos_rag # {}
  /\ documentos_memoria = {}
  /\ prompt # <<>>

\* C13: a chat request issues each of its calls (document search, memory
\* search, generation, memory add) at most once, and a request that did not
\* succeed ended with HTTP 500 at the call that failed, with no call after.
C13_SinReintentos ==
  req.tipo = "chat" =>
    /\ llamadas.busqueda_documentos <= 1
    /\ llamadas.busqueda_memoria <= 1
    /\ llamadas.generacion <= 1
    /\ llamadas.agregado_memoria <= 1
    /\ (pc = "fin" /\ resp.status # 200) =>
         /\ resp.status = 500
         /\ excepcion # ""
         /\ excepcion = "similarity_search" =>
              llamadas.generacion = 0 /\ llamadas.agregado_memoria = 0
         /\ excepcion = "create" =>
              llamadas.generacion = 1 /\ llamadas.agregado_memoria = 0

C13_Testigo ==
  /\ ChatTerminado
  /\ excepcion = "create"
  /\ resp.status = 500
  /\ llamadas.busqueda_documentos = 1
  /\ llamadas.busqueda_memoria = 1
  /\ llamadas.generacion = 1

\* C14: the memory add of a chat request is issued only after the model
\* returned a response, and a chat request that failed in a search or in
\* the generation left the index count what it was when it started.
C14_FalloSinEscritura ==
  req.tipo = "chat" =>
    /\ llamadas.agregado_memoria > 0 =>
         llamadas.generacion = 1 /\ respuesta_generada \in Respuestas
    /\ (pc = "fin" /\ excepcion \in {"similarity_search", "create"}) =>
         /\ ObtenerConteo(index) = conteo0
         /\ llamadas.agregado_memoria = 0
         /\ resp.status = 500

C14_Testigo ==
  /\ ChatTerminado
  /\ excepcion = "similarity_search"
  /\ llamadas.busqueda_memoria = 1
  /\ conteo0 > inicial
  /\ ObtenerConteo(index) = conteo0
====
